---- MODULE Spec2Model ----
(***************************************************************************)
(* The milestone escrow engine of SecureFlow: contract WorkLifecycle        *)
(* (startWork, submitMilestone, approveMilestone, rejectMilestone,          *)
(* resubmitMilestone, disputeMilestone, resolveDispute) acting on one       *)
(* escrow record, its milestones, and the custody and fee counters of the   *)
(* escrow's token.  Every external call is one transaction: it either       *)
(* commits all its writes or reverts and leaves the storage as it was.      *)
(*                                                                          *)
(* The base contract EscrowCore (modifiers, _transferOut, DISPUTE_PERIOD,   *)
(* escrow creation) is modelled from the specification.                     *)
(* Milestone indices are 0-based as in the contract.                        *)
(* Not modelled: reputation and completedEscrows counters, free-text fields *)
(* (description, disputeReason), the write-only timestamps approvedAt and   *)
(* disputedAt, none of which any operation reads, and the event logs other  *)
(* than what `last` keeps of the call just made.                            *)
(***************************************************************************)
EXTENDS Integers, FiniteSets, Sequences, TLC

\* ----- bounds of the model ------------------------------------------------
MaxMilestones == 2
MaxAmount == 2
MaxFee == 1
MaxTime == 2
\* held in custody for the other escrows funded in the same token
OtherEscrowed == 1

\* ----- program constants ---------------------------------------------------
\* in units of one model tick
DISPUTE_PERIOD == 1
\* what the client passes for every escrow it creates, with one arbiter
RequiredConfirmations == 1

\* ----- identities ---------------------------------------------------------
Depositor == "depositor"
Beneficiary == "beneficiary"
Arbiter == "arbiter"
Stranger == "stranger"
NoAddress == "0x0"
Callers == {Depositor, Beneficiary, Arbiter, Stranger}

\* ----- enums --------------------------------------------------------------
EscrowStatus == {"Pending", "InProgress", "Disputed", "Released", "Cancelled"}
MilestoneStatus ==
    {"NotStarted", "Submitted", "Approved", "Rejected", "Disputed", "Resolved"}

VARIABLES
    e,                 \* escrows[escrowId]
    milestones,        \* milestones[escrowId]: index -> Milestone
    escrowedAmount,    \* escrowedAmount[e.token]
    totalFeesByToken,  \* totalFeesByToken[e.token]
    now,               \* block.timestamp
    received,          \* tokens of e.token transferred out, per recipient
    last,              \* the call just executed and how it ended
    entered,           \* the reentrancy guard is held
    pending            \* the call whose transfer has handed control to the recipient

ledger == <<e, milestones, escrowedAmount, totalFeesByToken, received>>
guard == <<entered, pending>>
vars == <<e, milestones, escrowedAmount, totalFeesByToken, now, received, last,
          entered, pending>>

\* ----- helpers ------------------------------------------------------------
\* amounts[0] + ... + amounts[n - 1]
RECURSIVE SumAmounts(_, _)
SumAmounts(amounts, n) ==
    IF n = 0 THEN 0 ELSE amounts[n - 1] + SumAmounts(amounts, n - 1)

\* A storage slot never written reads as the zero value of its type.
EmptyMilestone ==
    [amount |-> 0, status |-> "NotStarted", submittedAt |-> 0, disputedBy |-> NoAddress]

Milestone(i) == IF i \in DOMAIN milestones THEN milestones[i] ELSE EmptyMilestone

\* What `last` keeps of a call: of a committed call what its events carry
\* (sender, milestone index, amount), of a reverted call only the reason.
\* claim and rewardClaimFailed are set by approveMilestone alone, and
\* replaced, the submittedAt that the call overwrote, by resubmitMilestone.
Call(op, caller, i, amt, result) ==
    IF result = "Ok"
    THEN [op |-> op, caller |-> caller, index |-> i, amount |-> amt, result |-> "Ok",
          claim |-> "unset", rewardClaimFailed |-> FALSE, replaced |-> 0]
    ELSE [op |-> op, caller |-> NoAddress, index |-> 0, amount |-> 0, result |-> result,
          claim |-> "unset", rewardClaimFailed |-> FALSE, replaced |-> 0]

\* The outcomes of a _transferOut: chosen by the environment when the call
\* is reached, and not drawn at all when an earlier require has reverted.
Transfers(reached) == IF reached THEN BOOLEAN ELSE {TRUE}

NoCall == Call("none", NoAddress, 0, 0, "Ok")

\* How engagementRewards.appClaim ends: "unset" when no rewards contract is
\* configured and the call is not made, "true" and "false" for what it
\* returns, "revert" when it throws.
RewardClaims == {"unset", "true", "false", "revert"}

\* The outcomes of appClaim, drawn only when approveMilestone gets that far.
Claims(reached) == IF reached THEN RewardClaims ELSE {"unset"}

\* Whether approveMilestone emits RewardClaimFailed.
appClaimFailed(claim) == claim \in {"false", "revert"}

\* ----- modifiers ----------------------------------------------------------
onlyDepositor(caller) == caller = e.depositor
onlyBeneficiary(caller) == caller = e.beneficiary
onlyEscrowParticipant(caller) == caller \in {e.depositor, e.beneficiary} \cup e.arbiters

\* nonReentrant stands behind the access modifier in every function's
\* modifier list: a caller that passes the access check while the guard is
\* held is turned away before the body runs.
nonReentrant(authorized, op, body) ==
    IF authorized /\ entered
    THEN /\ last' = Call(op, NoAddress, 0, 0, "Reentrant")
         /\ UNCHANGED <<ledger, now>>
    ELSE body

\* ----- escrow creation ----------------------------------------------------
NewEscrow(n, fee, amounts) ==
    [depositor |-> Depositor, beneficiary |-> Beneficiary, arbiters |-> {Arbiter},
     status |-> "Pending", workStarted |-> FALSE,
     totalAmount |-> SumAmounts(amounts, n), paidAmount |-> 0,
     platformFee |-> fee, milestoneCount |-> n,
     requiredConfirmations |-> RequiredConfirmations]

Init ==
    \E n \in 1..MaxMilestones, fee \in {0, MaxFee} :
      \E amounts \in [0..(n - 1) -> 0..MaxAmount] :
        /\ SumAmounts(amounts, n) > 0        \* the escrow has been funded
        /\ e = NewEscrow(n, fee, amounts)
        /\ milestones = [i \in 0..(n - 1) |->
                           [EmptyMilestone EXCEPT !.amount = amounts[i]]]
        /\ escrowedAmount = e.totalAmount + OtherEscrowed
        /\ totalFeesByToken = 0
        /\ now = 0
        /\ received = [a \in {Depositor, Beneficiary} |-> 0]
        /\ last = NoCall
        /\ entered = FALSE
        /\ pending = [op |-> "none", caller |-> NoAddress, index |-> 0, amount |-> 0,
                      transfer |-> "none"]

\* ----- startWork ----------------------------------------------------------
\* (mutant) the requires on the escrow's status and on workStarted are missing
startWorkOutcomeRepeatable(caller) ==
    IF ~onlyBeneficiary(caller) THEN "NotAuthorized"
    ELSE "Ok"

startWorkOutcome(caller) ==
    IF ~onlyBeneficiary(caller) THEN "NotAuthorized"
    ELSE IF e.status # "Pending" THEN "InvalidState"
    ELSE IF e.workStarted THEN "InvalidState"
    ELSE "Ok"

startWork(caller) ==
    /\ last' = Call("startWork", caller, 0, 0, startWorkOutcome(caller))
    /\ IF startWorkOutcome(caller) = "Ok"
       THEN /\ e' = [e EXCEPT !.workStarted = TRUE, !.status = "InProgress"]
            /\ totalFeesByToken' =
                 IF e.platformFee > 0 THEN totalFeesByToken + e.platformFee
                 ELSE totalFeesByToken
            /\ UNCHANGED <<milestones, escrowedAmount, received>>
       ELSE UNCHANGED ledger
    /\ UNCHANGED now

\* ----- submitMilestone ----------------------------------------------------
submitMilestoneOutcome(caller, i) ==
    IF ~onlyBeneficiary(caller) THEN "NotAuthorized"
    ELSE IF e.status # "InProgress" THEN "InvalidState"
    ELSE IF ~(i < e.milestoneCount) THEN "NotFound"
    ELSE IF Milestone(i).status # "NotStarted" THEN "InvalidState"
    ELSE "Ok"

submitMilestone(caller, i) ==
    /\ last' = Call("submit", caller, i, 0, submitMilestoneOutcome(caller, i))
    /\ IF submitMilestoneOutcome(caller, i) = "Ok"
       THEN /\ milestones' = [milestones EXCEPT ![i].status = "Submitted",
                                                ![i].submittedAt = now]
            /\ UNCHANGED <<e, escrowedAmount, totalFeesByToken, received>>
       ELSE UNCHANGED ledger
    /\ UNCHANGED now

\* ----- approveMilestone ---------------------------------------------------
\* transferOk: whether _transferOut to the beneficiary goes through.  The
\* checked subtraction escrowedAmount[e.token] -= amount reverts on underflow.
\* (mutant) the require on the milestone's status is missing
approveMilestoneOutcomeAnyStatus(caller, i, transferOk) ==
    IF ~onlyDepositor(caller) THEN "NotAuthorized"
    ELSE IF e.status # "InProgress" THEN "InvalidState"
    ELSE IF ~(i < e.milestoneCount) THEN "NotFound"
    ELSE IF escrowedAmount < Milestone(i).amount THEN "Panic"
    ELSE IF ~transferOk THEN "TransferFailed"
    ELSE "Ok"

approveMilestoneOutcome(caller, i, transferOk) ==
    IF ~onlyDepositor(caller) THEN "NotAuthorized"
    ELSE IF e.status # "InProgress" THEN "InvalidState"
    ELSE IF ~(i < e.milestoneCount) THEN "NotFound"
    ELSE IF Milestone(i).status # "Submitted" THEN "InvalidState"
    ELSE IF escrowedAmount < Milestone(i).amount THEN "Panic"
    ELSE IF ~transferOk THEN "TransferFailed"
    ELSE "Ok"

\* (mutant) what is paid is taken off totalAmount
\* (mutant) an approval leaves paidAmount as it was
approveMilestoneEscrowUnpaid(amount) ==
    [e EXCEPT !.status = IF e.paidAmount + amount = e.totalAmount
                         THEN "Released" ELSE e.status]

approveMilestoneEscrowShrinksTotal(amount) ==
    LET paid == e.paidAmount + amount IN
    [e EXCEPT !.paidAmount = paid,
              !.totalAmount = e.totalAmount - amount,
              !.status = IF paid = e.totalAmount THEN "Released" ELSE e.status]

\* (mutant) completion is tested against the milestone, not the escrow
approveMilestoneEscrowWrongTotal(amount) ==
    LET paid == e.paidAmount + amount IN
    [e EXCEPT !.paidAmount = paid,
              !.status = IF paid = amount THEN "Released" ELSE e.status]

\* The escrow record after approve has added `amount` to paidAmount.
approveMilestoneEscrow(amount) ==
    LET paid == e.paidAmount + amount IN
    [e EXCEPT !.paidAmount = paid,
              !.status = IF paid = e.totalAmount THEN "Released" ELSE e.status]

\* (mutant) a transfer that fails leaves the writes made before it in place
approveMilestoneKeepsWrites(caller, i, transferOk, claim) ==
    /\ last' = Call("approve", caller, i, 0,
                    approveMilestoneOutcome(caller, i, transferOk))
    /\ IF approveMilestoneOutcome(caller, i, transferOk) \in {"Ok", "TransferFailed"}
       THEN LET amount == milestones[i].amount IN
            /\ milestones' = [milestones EXCEPT ![i].status = "Approved"]
            /\ e' = approveMilestoneEscrow(amount)
            /\ escrowedAmount' = escrowedAmount - amount
            /\ received' =
                 IF approveMilestoneOutcome(caller, i, transferOk) = "Ok"
                 THEN [received EXCEPT ![e.beneficiary] = @ + amount]
                 ELSE received
            /\ UNCHANGED totalFeesByToken
       ELSE UNCHANGED ledger
    /\ UNCHANGED now

\* (mutant) appClaim is called without try/catch: its revert is the call's
approveMilestoneClaimReverts(caller, i, transferOk, claim) ==
    LET outcome == IF approveMilestoneOutcome(caller, i, transferOk) = "Ok"
                      /\ claim = "revert"
                   THEN "RewardClaimFailed"
                   ELSE approveMilestoneOutcome(caller, i, transferOk)
    IN  /\ last' = [Call("approve", caller, i, 0, outcome) EXCEPT
                      !.claim = IF outcome = "Ok" THEN claim ELSE "unset",
                      !.rewardClaimFailed = outcome = "Ok" /\ appClaimFailed(claim)]
        /\ IF outcome = "Ok"
           THEN LET amount == milestones[i].amount IN
                /\ milestones' = [milestones EXCEPT ![i].status = "Approved"]
                /\ e' = approveMilestoneEscrow(amount)
                /\ escrowedAmount' = escrowedAmount - amount
                /\ received' = [received EXCEPT ![e.beneficiary] = @ + amount]
                /\ UNCHANGED totalFeesByToken
           ELSE UNCHANGED ledger
        /\ UNCHANGED now

\* claim: how the reward claim made after the transfer ends; it is caught
\* and shows only in the RewardClaimFailed event.
\* (mutant) an approval pays the beneficiary without taking the amount out
\* of custody
approveMilestoneKeepsCustody(caller, i, transferOk, claim) ==
    /\ last' = [Call("approve", caller, i, 0,
                     approveMilestoneOutcome(caller, i, transferOk)) EXCEPT
                  !.claim = IF approveMilestoneOutcome(caller, i, transferOk) = "Ok"
                            THEN claim ELSE "unset",
                  !.rewardClaimFailed =
                     /\ approveMilestoneOutcome(caller, i, transferOk) = "Ok"
                     /\ appClaimFailed(claim)]
    /\ IF approveMilestoneOutcome(caller, i, transferOk) = "Ok"
       THEN LET amount == milestones[i].amount IN
            /\ milestones' = [milestones EXCEPT ![i].status = "Approved"]
            /\ e' = approveMilestoneEscrow(amount)
            /\ received' = [received EXCEPT ![e.beneficiary] = @ + amount]
            /\ UNCHANGED <<escrowedAmount, totalFeesByToken>>
       ELSE UNCHANGED ledger
    /\ UNCHANGED now

approveMilestone(caller, i, transferOk, claim) ==
    /\ last' = [Call("approve", caller, i, 0,
                     approveMilestoneOutcome(caller, i, transferOk)) EXCEPT
                  !.claim = IF approveMilestoneOutcome(caller, i, transferOk) = "Ok"
                            THEN claim ELSE "unset",
                  !.rewardClaimFailed =
                     /\ approveMilestoneOutcome(caller, i, transferOk) = "Ok"
                     /\ appClaimFailed(claim)]
    /\ IF approveMilestoneOutcome(caller, i, transferOk) = "Ok"
       THEN LET amount == milestones[i].amount IN
            /\ milestones' = [milestones EXCEPT ![i].status = "Approved"]
            /\ e' = approveMilestoneEscrow(amount)
            /\ escrowedAmount' = escrowedAmount - amount
            /\ received' = [received EXCEPT ![e.beneficiary] = @ + amount]
            /\ UNCHANGED totalFeesByToken
       ELSE UNCHANGED ledger
    /\ UNCHANGED now

\* ----- rejectMilestone ----------------------------------------------------
\* (mutant) a milestone can be rejected whatever its status
rejectMilestoneOutcomeAnyStatus(caller, i) ==
    IF ~onlyDepositor(caller) THEN "NotAuthorized"
    ELSE IF e.status # "InProgress" THEN "InvalidState"
    ELSE IF ~(i < e.milestoneCount) THEN "NotFound"
    ELSE "Ok"

rejectMilestoneOutcome(caller, i) ==
    IF ~onlyDepositor(caller) THEN "NotAuthorized"
    ELSE IF e.status # "InProgress" THEN "InvalidState"
    ELSE IF ~(i < e.milestoneCount) THEN "NotFound"
    ELSE IF Milestone(i).status # "Submitted" THEN "InvalidState"
    ELSE "Ok"

\* (mutant) a rejection hands the milestone's amount back to the depositor
rejectMilestoneRefunds(caller, i) ==
    /\ last' = Call("reject", caller, i, 0, rejectMilestoneOutcome(caller, i))
    /\ IF rejectMilestoneOutcome(caller, i) = "Ok"
       THEN /\ milestones' = [milestones EXCEPT ![i].status = "Rejected",
                                                ![i].disputedBy = caller]
            /\ escrowedAmount' = escrowedAmount - milestones[i].amount
            /\ received' = [received EXCEPT ![e.depositor] = @ + milestones[i].amount]
            /\ UNCHANGED <<e, totalFeesByToken>>
       ELSE UNCHANGED ledger
    /\ UNCHANGED now

rejectMilestone(caller, i) ==
    /\ last' = Call("reject", caller, i, 0, rejectMilestoneOutcome(caller, i))
    /\ IF rejectMilestoneOutcome(caller, i) = "Ok"
       THEN /\ milestones' = [milestones EXCEPT ![i].status = "Rejected",
                                                ![i].disputedBy = caller]
            /\ UNCHANGED <<e, escrowedAmount, totalFeesByToken, received>>
       ELSE UNCHANGED ledger
    /\ UNCHANGED now

\* ----- resubmitMilestone --------------------------------------------------
\* (mutant) the function is open to every caller
resubmitMilestoneOutcomeAnyCaller(caller, i) ==
    IF e.status # "InProgress" THEN "InvalidState"
    ELSE IF ~(i < e.milestoneCount) THEN "NotFound"
    ELSE IF Milestone(i).status # "Rejected" THEN "InvalidState"
    ELSE "Ok"

resubmitMilestoneOutcome(caller, i) ==
    IF ~onlyBeneficiary(caller) THEN "NotAuthorized"
    ELSE IF e.status # "InProgress" THEN "InvalidState"
    ELSE IF ~(i < e.milestoneCount) THEN "NotFound"
    ELSE IF Milestone(i).status # "Rejected" THEN "InvalidState"
    ELSE "Ok"

\* (mutant) a resubmission keeps the time of the first submission
resubmitMilestoneKeepsSubmittedAt(caller, i) ==
    /\ last' = [Call("resubmit", caller, i, 0, resubmitMilestoneOutcome(caller, i))
                 EXCEPT !.replaced = IF resubmitMilestoneOutcome(caller, i) = "Ok"
                                     THEN milestones[i].submittedAt ELSE 0]
    /\ IF resubmitMilestoneOutcome(caller, i) = "Ok"
       THEN /\ milestones' = [milestones EXCEPT ![i].status = "Submitted"]
            /\ UNCHANGED <<e, escrowedAmount, totalFeesByToken, received>>
       ELSE UNCHANGED ledger
    /\ UNCHANGED now

resubmitMilestone(caller, i) ==
    /\ last' = [Call("resubmit", caller, i, 0, resubmitMilestoneOutcome(caller, i))
                 EXCEPT !.replaced = IF resubmitMilestoneOutcome(caller, i) = "Ok"
                                     THEN milestones[i].submittedAt ELSE 0]
    /\ IF resubmitMilestoneOutcome(caller, i) = "Ok"
       THEN /\ milestones' = [milestones EXCEPT ![i].status = "Submitted",
                                                ![i].submittedAt = now]
            /\ UNCHANGED <<e, escrowedAmount, totalFeesByToken, received>>
       ELSE UNCHANGED ledger
    /\ UNCHANGED now

\* ----- disputeMilestone ---------------------------------------------------
\* (mutant) the window closes one tick early: < for <=
disputeMilestoneOutcomeStrict(caller, i) ==
    IF ~onlyDepositor(caller) THEN "NotAuthorized"
    ELSE IF Milestone(i).status # "Submitted" THEN "InvalidState"
    ELSE IF ~(now < Milestone(i).submittedAt + DISPUTE_PERIOD) THEN "WindowExpired"
    ELSE "Ok"

\* The function reads milestones[escrowId][milestoneIndex] without comparing
\* the index with milestoneCount and without reading e.status.
disputeMilestoneOutcome(caller, i) ==
    IF ~onlyDepositor(caller) THEN "NotAuthorized"
    ELSE IF Milestone(i).status # "Submitted" THEN "InvalidState"
    ELSE IF ~(now <= Milestone(i).submittedAt + DISPUTE_PERIOD) THEN "WindowExpired"
    ELSE "Ok"

disputeMilestone(caller, i) ==
    /\ last' = Call("dispute", caller, i, 0, disputeMilestoneOutcome(caller, i))
    /\ IF disputeMilestoneOutcome(caller, i) = "Ok"
       THEN /\ milestones' = [milestones EXCEPT ![i].status = "Disputed",
                                                ![i].disputedBy = caller]
            /\ e' = [e EXCEPT !.status = "Disputed"]
            /\ UNCHANGED <<escrowedAmount, totalFeesByToken, received>>
       ELSE UNCHANGED ledger
    /\ UNCHANGED now

\* ----- resolveDispute -----------------------------------------------------
\* payOk, refundOk: whether the _transferOut to the beneficiary, to the
\* depositor, goes through.  A failed transfer reverts the transaction.
\* (mutant) the require on the allocation is missing
resolveDisputeOutcomeAnyAllocation(caller, i, beneficiaryAmount, payOk, refundOk) ==
    LET milestoneAmount == Milestone(i).amount
        refundAmount == milestoneAmount - beneficiaryAmount
    IN  IF ~onlyEscrowParticipant(caller) THEN "NotAuthorized"
        ELSE IF e.status # "Disputed" THEN "InvalidState"
        ELSE IF Milestone(i).status # "Disputed" THEN "InvalidState"
        ELSE IF beneficiaryAmount > 0 /\ escrowedAmount < beneficiaryAmount THEN "Panic"
        ELSE IF beneficiaryAmount > 0 /\ ~payOk THEN "TransferFailed"
        ELSE IF refundAmount > 0 /\ ~refundOk THEN "TransferFailed"
        ELSE "Ok"

\* (mutant) the require on the escrow's status is missing
resolveDisputeOutcomeAnyEscrowStatus(caller, i, beneficiaryAmount, payOk, refundOk) ==
    LET milestoneAmount == Milestone(i).amount
        refundAmount == milestoneAmount - beneficiaryAmount
    IN  IF ~onlyEscrowParticipant(caller) THEN "NotAuthorized"
        ELSE IF Milestone(i).status # "Disputed" THEN "InvalidState"
        ELSE IF ~(beneficiaryAmount <= milestoneAmount) THEN "InvalidAllocation"
        ELSE IF beneficiaryAmount > 0 /\ escrowedAmount < beneficiaryAmount THEN "Panic"
        ELSE IF beneficiaryAmount > 0 /\ ~payOk THEN "TransferFailed"
        ELSE IF refundAmount > 0 /\ escrowedAmount - beneficiaryAmount < refundAmount
             THEN "Panic"
        ELSE IF refundAmount > 0 /\ ~refundOk THEN "TransferFailed"
        ELSE "Ok"

\* (mutant) the require on the milestone's status is missing
resolveDisputeOutcomeAnyStatus(caller, i, beneficiaryAmount, payOk, refundOk) ==
    LET milestoneAmount == Milestone(i).amount
        refundAmount == milestoneAmount - beneficiaryAmount
    IN  IF ~onlyEscrowParticipant(caller) THEN "NotAuthorized"
        ELSE IF e.status # "Disputed" THEN "InvalidState"
        ELSE IF ~(i < e.milestoneCount) THEN "NotFound"
        ELSE IF ~(beneficiaryAmount <= milestoneAmount) THEN "InvalidAllocation"
        ELSE IF beneficiaryAmount > 0 /\ ~payOk THEN "TransferFailed"
        ELSE IF refundAmount > 0 /\ ~refundOk THEN "TransferFailed"
        ELSE "Ok"

resolveDisputeOutcome(caller, i, beneficiaryAmount, payOk, refundOk) ==
    LET milestoneAmount == Milestone(i).amount
        refundAmount == milestoneAmount - beneficiaryAmount
    IN  IF ~onlyEscrowParticipant(caller) THEN "NotAuthorized"
        ELSE IF e.status # "Disputed" THEN "InvalidState"
        ELSE IF Milestone(i).status # "Disputed" THEN "InvalidState"
        ELSE IF ~(beneficiaryAmount <= milestoneAmount) THEN "InvalidAllocation"
        ELSE IF beneficiaryAmount > 0 /\ escrowedAmount < beneficiaryAmount THEN "Panic"
        ELSE IF beneficiaryAmount > 0 /\ ~payOk THEN "TransferFailed"
        ELSE IF refundAmount > 0 /\ escrowedAmount - beneficiaryAmount < refundAmount
             THEN "Panic"
        ELSE IF refundAmount > 0 /\ ~refundOk THEN "TransferFailed"
        ELSE "Ok"

resolveDisputeWinner(beneficiaryAmount, refundAmount) ==
    IF beneficiaryAmount > refundAmount THEN e.beneficiary ELSE e.depositor

\* (mutant) the award is taken off paidAmount
resolveDisputeEscrowDebits(beneficiaryAmount) ==
    LET paid == e.paidAmount - beneficiaryAmount IN
    [e EXCEPT !.paidAmount = paid,
              !.status = IF paid = e.totalAmount THEN "Released" ELSE "InProgress"]

\* (mutant) the escrow is not re-evaluated for completion
resolveDisputeEscrowNoRelease(beneficiaryAmount) ==
    [e EXCEPT !.paidAmount = e.paidAmount + beneficiaryAmount, !.status = "InProgress"]

\* The escrow record after resolve has added beneficiaryAmount to paidAmount.
resolveDisputeEscrow(beneficiaryAmount) ==
    LET paid == e.paidAmount + beneficiaryAmount IN
    [e EXCEPT !.paidAmount = paid,
              !.status = IF paid = e.totalAmount THEN "Released" ELSE "InProgress"]

\* (mutant) a refund that fails after the payout keeps the payout
resolveDisputeKeepsPayout(caller, i, beneficiaryAmount, payOk, refundOk) ==
    LET outcome == resolveDisputeOutcome(caller, i, beneficiaryAmount, payOk, refundOk)
        paidOut == /\ outcome = "TransferFailed"
                   /\ resolveDisputeOutcome(caller, i, beneficiaryAmount, TRUE, TRUE) = "Ok"
                   /\ beneficiaryAmount > 0 /\ payOk
    IN  /\ last' = Call("resolve", caller, i, beneficiaryAmount, outcome)
        /\ IF outcome = "Ok"
           THEN LET refundAmount == milestones[i].amount - beneficiaryAmount IN
                /\ milestones' =
                     [milestones EXCEPT
                        ![i].status = "Resolved",
                        ![i].disputedBy = IF beneficiaryAmount > refundAmount
                                          THEN e.beneficiary ELSE e.depositor]
                /\ e' = [e EXCEPT !.paidAmount = @ + beneficiaryAmount,
                                  !.status = IF e.paidAmount + beneficiaryAmount = e.totalAmount
                                             THEN "Released" ELSE "InProgress"]
                /\ escrowedAmount' = escrowedAmount - beneficiaryAmount - refundAmount
                /\ received' = [received EXCEPT ![e.beneficiary] = @ + beneficiaryAmount,
                                                ![e.depositor] = @ + refundAmount]
                /\ UNCHANGED totalFeesByToken
           ELSE IF paidOut
           THEN /\ e' = [e EXCEPT !.paidAmount = @ + beneficiaryAmount]
                /\ escrowedAmount' = escrowedAmount - beneficiaryAmount
                /\ received' = [received EXCEPT ![e.beneficiary] = @ + beneficiaryAmount]
                /\ UNCHANGED <<milestones, totalFeesByToken>>
           ELSE UNCHANGED ledger
        /\ UNCHANGED now

resolveDispute(caller, i, beneficiaryAmount, payOk, refundOk) ==
    /\ last' = Call("resolve", caller, i, beneficiaryAmount,
                    resolveDisputeOutcome(caller, i, beneficiaryAmount, payOk, refundOk))
    /\ IF resolveDisputeOutcome(caller, i, beneficiaryAmount, payOk, refundOk) = "Ok"
       THEN LET refundAmount == milestones[i].amount - beneficiaryAmount IN
            /\ milestones' =
                 [milestones EXCEPT
                    ![i].status = "Resolved",
                    ![i].disputedBy = resolveDisputeWinner(beneficiaryAmount, refundAmount)]
            /\ e' = resolveDisputeEscrow(beneficiaryAmount)
            /\ escrowedAmount' = escrowedAmount - beneficiaryAmount - refundAmount
            /\ received' = [received EXCEPT ![e.beneficiary] = @ + beneficiaryAmount,
                                            ![e.depositor] = @ + refundAmount]
            /\ UNCHANGED totalFeesByToken
       ELSE UNCHANGED ledger
    /\ UNCHANGED now

\* ----- time ---------------------------------------------------------------
Tick ==
    /\ now < MaxTime
    /\ now' = now + 1
    /\ last' = NoCall
    /\ UNCHANGED ledger

\* A reverted transaction has changed nothing: the step after it only drops
\* its record, and the calls go on from the same storage.
Discard ==
    /\ last.result # "Ok"
    /\ last' = NoCall
    /\ UNCHANGED <<ledger, now>>

\* Indices a caller may pass: every milestone and one index past the last.
Indices == 0..MaxMilestones
Allocations == 0..(MaxAmount + 1)

\* ----- the external functions with their modifiers ------------------------
\* A call that returns has taken the guard and given it back.
startWorkExternal(caller) ==
    /\ nonReentrant(onlyBeneficiary(caller), "startWork", startWork(caller))
    /\ UNCHANGED guard

submitMilestoneExternal(caller, i) ==
    /\ nonReentrant(onlyBeneficiary(caller), "submit", submitMilestone(caller, i))
    /\ UNCHANGED guard

approveMilestoneExternal(caller, i, transferOk, claim) ==
    /\ nonReentrant(onlyDepositor(caller), "approve",
                    approveMilestone(caller, i, transferOk, claim))
    /\ UNCHANGED guard

rejectMilestoneExternal(caller, i) ==
    /\ nonReentrant(onlyDepositor(caller), "reject", rejectMilestone(caller, i))
    /\ UNCHANGED guard

resubmitMilestoneExternal(caller, i) ==
    /\ nonReentrant(onlyBeneficiary(caller), "resubmit", resubmitMilestone(caller, i))
    /\ UNCHANGED guard

\* (mutant) the function does not carry nonReentrant
disputeMilestoneExternalUnguarded(caller, i) ==
    /\ disputeMilestone(caller, i)
    /\ UNCHANGED guard

disputeMilestoneExternal(caller, i) ==
    /\ nonReentrant(onlyDepositor(caller), "dispute", disputeMilestone(caller, i))
    /\ UNCHANGED guard

resolveDisputeExternal(caller, i, beneficiaryAmount, payOk, refundOk) ==
    /\ nonReentrant(onlyEscrowParticipant(caller), "resolve",
                    resolveDispute(caller, i, beneficiaryAmount, payOk, refundOk))
    /\ UNCHANGED guard

\* ----- a transfer that hands control to its recipient ----------------------
\* _transferOut of an approve or a resolve that is going to commit runs code
\* of the recipient, which may call the contract before the transfer
\* returns.  The call is then suspended at that transfer, holding the guard,
\* with the writes it has made so far in place; `pending` keeps the call and
\* the transfer it is suspended at.
Suspended(op, caller, i, amt, transfer) ==
    [op |-> op, caller |-> caller, index |-> i, amount |-> amt, transfer |-> transfer]

NoPending == Suspended("none", NoAddress, 0, 0, "none")

\* approveMilestone up to and including _transferOut to the beneficiary.
approveMilestoneTransfers(caller, i) ==
    /\ ~entered
    /\ approveMilestoneOutcome(caller, i, TRUE) = "Ok"
    /\ LET amount == milestones[i].amount IN
       /\ milestones' = [milestones EXCEPT ![i].status = "Approved"]
       /\ e' = [e EXCEPT !.paidAmount = @ + amount]
       /\ escrowedAmount' = escrowedAmount - amount
       /\ received' = [received EXCEPT ![e.beneficiary] = @ + amount]
    /\ entered' = TRUE
    /\ pending' = Suspended("approve", caller, i, 0, "pay")
    /\ last' = NoCall
    /\ UNCHANGED <<totalFeesByToken, now>>

\* approveMilestone from the return of _transferOut to its end.
approveMilestoneReturns(claim) ==
    /\ entered
    /\ pending.op = "approve"
    /\ e' = [e EXCEPT !.status = IF e.paidAmount = e.totalAmount
                                 THEN "Released" ELSE e.status]
    /\ last' = [Call("approve", pending.caller, pending.index, 0, "Ok") EXCEPT
                  !.claim = claim,
                  !.rewardClaimFailed = appClaimFailed(claim)]
    /\ entered' = FALSE
    /\ pending' = NoPending
    /\ UNCHANGED <<milestones, escrowedAmount, totalFeesByToken, received, now>>

\* resolveDispute up to and including one of its transfers: the payment to
\* the beneficiary ("pay") or, that one having returned, the refund to the
\* depositor ("refund").
resolveDisputeTransfers(caller, i, beneficiaryAmount, transfer) ==
    /\ ~entered
    /\ resolveDisputeOutcome(caller, i, beneficiaryAmount, TRUE, TRUE) = "Ok"
    /\ LET refundAmount == milestones[i].amount - beneficiaryAmount
           refunded == IF transfer = "refund" THEN refundAmount ELSE 0
       IN  /\ \/ transfer = "pay" /\ beneficiaryAmount > 0
              \/ transfer = "refund" /\ refundAmount > 0
           /\ milestones' =
                [milestones EXCEPT
                   ![i].status = "Resolved",
                   ![i].disputedBy = resolveDisputeWinner(beneficiaryAmount, refundAmount)]
           /\ e' = [e EXCEPT !.paidAmount = @ + beneficiaryAmount]
           /\ escrowedAmount' = escrowedAmount - beneficiaryAmount - refunded
           /\ received' = [received EXCEPT ![e.beneficiary] = @ + beneficiaryAmount,
                                           ![e.depositor] = @ + refunded]
    /\ entered' = TRUE
    /\ pending' = Suspended("resolve", caller, i, beneficiaryAmount, transfer)
    /\ last' = NoCall
    /\ UNCHANGED <<totalFeesByToken, now>>

\* resolveDispute from the return of that transfer to its end.
resolveDisputeReturns ==
    /\ entered
    /\ pending.op = "resolve"
    /\ LET refundAmount == milestones[pending.index].amount - pending.amount
           refunded == IF pending.transfer = "pay" THEN refundAmount ELSE 0
       IN  /\ escrowedAmount' = escrowedAmount - refunded
           /\ received' = [received EXCEPT ![e.depositor] = @ + refunded]
    /\ e' = [e EXCEPT !.status = IF e.paidAmount = e.totalAmount
                                 THEN "Released" ELSE "InProgress"]
    /\ last' = Call("resolve", pending.caller, pending.index, pending.amount, "Ok")
    /\ entered' = FALSE
    /\ pending' = NoPending
    /\ UNCHANGED <<milestones, totalFeesByToken, now>>

\* A call is made once the record of a reverted one has been dropped.
Ready == last.result = "Ok"

Next ==
    \/ Ready /\ \E caller \in Callers : startWorkExternal(caller)
    \/ Ready /\ \E caller \in Callers, i \in Indices : submitMilestoneExternal(caller, i)
    \/ Ready /\ \E caller \in Callers, i \in Indices :
         \E transferOk \in Transfers(approveMilestoneOutcome(caller, i, TRUE) = "Ok"),
            claim \in Claims(approveMilestoneOutcome(caller, i, TRUE) = "Ok") :
           approveMilestoneExternal(caller, i, transferOk, claim)
    \/ Ready /\ \E caller \in Callers, i \in Indices : rejectMilestoneExternal(caller, i)
    \/ Ready /\ \E caller \in Callers, i \in Indices : resubmitMilestoneExternal(caller, i)
    \/ Ready /\ \E caller \in Callers, i \in Indices : disputeMilestoneExternal(caller, i)
    \/ Ready /\ \E caller \in Callers, i \in Indices, beneficiaryAmount \in Allocations :
         \E payOk, refundOk \in
              Transfers(resolveDisputeOutcome(caller, i, beneficiaryAmount, TRUE, TRUE) = "Ok") :
           resolveDisputeExternal(caller, i, beneficiaryAmount, payOk, refundOk)
    \/ Ready /\ ~entered /\ Tick /\ UNCHANGED guard
    \/ Discard /\ UNCHANGED guard

\* Every transfer returns without its recipient calling the contract.
Spec == Init /\ [][Next]_vars

\* The recipients of transfers may call the contract before the transfer
\* returns.
NextReentrant ==
    \/ Next
    \/ Ready /\ \E caller \in Callers, i \in Indices : approveMilestoneTransfers(caller, i)
    \/ Ready /\ \E claim \in RewardClaims : approveMilestoneReturns(claim)
    \/ Ready /\ \E caller \in Callers, i \in Indices, beneficiaryAmount \in Allocations,
                   transfer \in {"pay", "refund"} :
         resolveDisputeTransfers(caller, i, beneficiaryAmount, transfer)
    \/ Ready /\ resolveDisputeReturns

SpecReentrant == Init /\ [][NextReentrant]_vars

\* ----- properties ---------------------------------------------------------
Committed(op) == last.op = op /\ last.result = "Ok"
Settled(i) == milestones[i].status \in {"Approved", "Resolved"}
Disputed == {i \in DOMAIN milestones : milestones[i].status = "Disputed"}
PositiveAmounts == \A i \in DOMAIN milestones : milestones[i].amount > 0
AmountsIn(status) ==
    [i \in DOMAIN milestones |->
       IF milestones[i].status = status THEN milestones[i].amount ELSE 0]

\* C1: in every reachable state the escrow's paidAmount is at most its
\* totalAmount, whatever calls were made by whatever callers.
PaidWithinTotal == e.paidAmount <= e.totalAmount

\* C1 witness: approvals and a resolution have paid out the whole escrow.
PaidWithinTotalWitness ==
    /\ Committed("resolve")
    /\ e.paidAmount = e.totalAmount
    /\ e.paidAmount > last.amount
    /\ last.amount > 0

\* C2: a milestone adds to paidAmount at most once.  paidAmount changes only
\* in a committed approve of a Submitted milestone (by its amount) or a
\* committed resolve of a Disputed milestone (by beneficiaryAmount), either
\* of which settles the milestone; a settled milestone is never changed
\* again, and no approve or resolve on it commits.
PaidAtMostOnce ==
    [][ /\ \A i \in DOMAIN milestones :
             Settled(i) =>
               /\ milestones'[i] = milestones[i]
               /\ ~(last'.op \in {"approve", "resolve"} /\ last'.result = "Ok"
                      /\ last'.index = i)
        /\ e'.paidAmount # e.paidAmount =>
             /\ last'.result = "Ok"
             /\ last'.index \in DOMAIN milestones
             /\ \/ /\ last'.op = "approve"
                   /\ milestones[last'.index].status = "Submitted"
                   /\ milestones'[last'.index].status = "Approved"
                   /\ e'.paidAmount = e.paidAmount + milestones[last'.index].amount
                \/ /\ last'.op = "resolve"
                   /\ milestones[last'.index].status = "Disputed"
                   /\ milestones'[last'.index].status = "Resolved"
                   /\ e'.paidAmount = e.paidAmount + last'.amount
        /\ (last'.op \in {"approve", "resolve"} /\ last'.result = "Ok") =>
             /\ ~Settled(last'.index)
             /\ milestones'[last'.index].status \in {"Approved", "Resolved"}
      ]_vars

\* C2 witness: with one milestone approved and another resolved, a further
\* approve has just been refused.
PaidAtMostOnceWitness ==
    /\ \E i, j \in DOMAIN milestones :
         milestones[i].status = "Approved" /\ milestones[j].status = "Resolved"
    /\ last.op = "approve"
    /\ last.result = "InvalidState"

DisputeOnlyInProgress ==
    [][ (PositiveAmounts /\ last'.op = "dispute" /\ last'.result = "Ok") =>
          e.status = "InProgress" ]_vars

\* C5: at most one milestone of the escrow is Disputed (stated for escrows
\* whose milestones all have a positive amount).
AtMostOneDisputed == PositiveAmounts => Cardinality(Disputed) <= 1

\* C6: for a Submitted milestone a dispute by the depositor commits at any
\* time up to and including submittedAt + DISPUTE_PERIOD, and from
\* submittedAt + DISPUTE_PERIOD + 1 on it fails with WindowExpired; the
\* failed call leaves the ledger as it was.
DisputeWindow ==
    /\ [](\A i \in DOMAIN milestones :
            milestones[i].status = "Submitted" =>
              /\ now <= milestones[i].submittedAt + DISPUTE_PERIOD =>
                   disputeMilestoneOutcome(e.depositor, i) = "Ok"
              /\ now >= milestones[i].submittedAt + DISPUTE_PERIOD + 1 =>
                   disputeMilestoneOutcome(e.depositor, i) = "WindowExpired")
    /\ [][ (last'.op = "dispute" /\ last'.result = "WindowExpired") =>
             UNCHANGED ledger ]_vars
    /\ [][ (last'.op = "dispute" /\ last'.result = "Ok") =>
             /\ milestones[last'.index].status = "Submitted"
             /\ now <= milestones[last'.index].submittedAt + DISPUTE_PERIOD
             /\ milestones'[last'.index].status = "Disputed" ]_vars

\* C6 witness: a dispute has committed at exactly submittedAt + DISPUTE_PERIOD.
DisputeWindowWitness ==
    /\ Committed("dispute")
    /\ now = milestones[last.index].submittedAt + DISPUTE_PERIOD

\* C7: a committed resolve(i, b) of a Disputed milestone of amount a has
\* b <= a, transfers b to the beneficiary and a - b to the depositor, adds b
\* (and not the refund) to paidAmount, takes a out of custody, makes the
\* milestone Resolved, and leaves the escrow Released if paidAmount then
\* equals totalAmount and InProgress otherwise.
ResolveEffect ==
    [][ (last'.op = "resolve" /\ last'.result = "Ok") =>
          LET i == last'.index
              b == last'.amount
              a == milestones[i].amount
          IN  /\ milestones[i].status = "Disputed"
              /\ b <= a
              /\ received'[e.beneficiary] = received[e.beneficiary] + b
              /\ received'[e.depositor] = received[e.depositor] + (a - b)
              /\ e'.paidAmount = e.paidAmount + b
              /\ escrowedAmount' = escrowedAmount - a
              /\ milestones'[i].status = "Resolved"
              /\ milestones'[i].amount = a
              /\ e'.status = IF e'.paidAmount = e'.totalAmount
                             THEN "Released" ELSE "InProgress"
      ]_vars

\* C7 witness: a resolve has split a milestone of 2 into 1 and 1.
ResolveEffectWitness ==
    /\ Committed("resolve")
    /\ last.amount = 1
    /\ milestones[last.index].amount = 2
    /\ received[e.depositor] = 1

\* C8: on a Disputed milestone of a Disputed escrow, a resolve by a
\* participant with beneficiaryAmount above the milestone's amount fails
\* with InvalidAllocation, and the failed call leaves the ledger (transfers,
\* paidAmount, custody, milestone and escrow status) as it was.
InvalidAllocationRejected ==
    /\ [](\A i \in DOMAIN milestones, b \in Allocations, caller \in Callers,
             payOk \in BOOLEAN, refundOk \in BOOLEAN :
            (/\ e.status = "Disputed"
             /\ milestones[i].status = "Disputed"
             /\ onlyEscrowParticipant(caller)
             /\ b > milestones[i].amount) =>
              resolveDisputeOutcome(caller, i, b, payOk, refundOk) = "InvalidAllocation")
    /\ [][ (last'.op = "resolve" /\ last'.result = "InvalidAllocation") =>
             UNCHANGED ledger ]_vars

\* C8 witness: a resolve has just failed with InvalidAllocation.
InvalidAllocationWitness ==
    /\ last.op = "resolve"
    /\ last.result = "InvalidAllocation"
    /\ e.status = "Disputed"
    /\ Disputed # {}

\* C9: a resolve in which the transfer to the beneficiary or the refund to
\* the depositor fails ends in TransferFailed and leaves the whole ledger as
\* it was: nobody is paid, and statuses, paidAmount and custody are unchanged.
ResolveAtomic ==
    /\ [](\A i \in DOMAIN milestones, b \in Allocations, caller \in Callers,
             payOk \in BOOLEAN, refundOk \in BOOLEAN :
            (/\ resolveDisputeOutcome(caller, i, b, TRUE, TRUE) = "Ok"
             /\ \/ b > 0 /\ ~payOk
                \/ milestones[i].amount - b > 0 /\ ~refundOk) =>
              resolveDisputeOutcome(caller, i, b, payOk, refundOk) = "TransferFailed")
    /\ [][ (last'.op = "resolve" /\ last'.result = "TransferFailed") =>
             UNCHANGED ledger ]_vars

\* C9 witness: a resolve of a milestone large enough to be split has failed
\* on a transfer.
ResolveAtomicWitness ==
    /\ last.op = "resolve"
    /\ last.result = "TransferFailed"
    /\ \E i \in Disputed : milestones[i].amount >= 2

\* C10: a committed approve of a Submitted milestone of amount a in an
\* InProgress escrow transfers a to the beneficiary, adds a to paidAmount,
\* takes a out of custody, makes the milestone Approved, and makes the
\* escrow Released exactly when paidAmount then equals totalAmount, leaving
\* it InProgress otherwise.
ApproveEffect ==
    [][ (last'.op = "approve" /\ last'.result = "Ok") =>
          LET i == last'.index
              a == milestones[i].amount
          IN  /\ milestones[i].status = "Submitted"
              /\ e.status = "InProgress"
              /\ received'[e.beneficiary] = received[e.beneficiary] + a
              /\ received'[e.depositor] = received[e.depositor]
              /\ e'.paidAmount = e.paidAmount + a
              /\ escrowedAmount' = escrowedAmount - a
              /\ milestones'[i].status = "Approved"
              /\ milestones'[i].amount = a
              /\ e'.status = IF e'.paidAmount = e'.totalAmount
                             THEN "Released" ELSE "InProgress"
      ]_vars

\* C10 witness: with milestones of 1 and 2, the second approve releases the
\* escrow.
ApproveEffectWitness ==
    /\ Committed("approve")
    /\ last.index = 1
    /\ e.milestoneCount = 2
    /\ milestones[0].amount = 1 /\ milestones[0].status = "Approved"
    /\ milestones[1].amount = 2 /\ milestones[1].status = "Approved"
    /\ e.paidAmount = 3
    /\ e.status = "Released"

\* C11: an operation that fails, on a precondition (NotAuthorized,
\* InvalidState, NotFound, InvalidAllocation, WindowExpired) or on a rejected
\* transfer (TransferFailed), leaves the whole ledger as it was: escrow and
\* milestone statuses and timestamps, paidAmount, custody and fee totals.
FailureLeavesLedger ==
    [][ last'.result # "Ok" => UNCHANGED ledger ]_vars

\* C11 witness: an approve has failed on its transfer after an earlier
\* milestone was paid.
FailureLeavesLedgerWitness ==
    /\ last.op = "approve"
    /\ last.result = "TransferFailed"
    /\ e.paidAmount > 0
    /\ \E i \in DOMAIN milestones : milestones[i].status = "Submitted"

\* C12: startWork, submit and resubmit commit only for the escrow's
\* beneficiary; approve, reject and dispute only for its depositor; resolve
\* only for its depositor, its beneficiary or one of its arbiters.  A call by
\* anybody else fails with NotAuthorized and leaves the ledger as it was.
Authorization ==
    /\ [][ last'.result = "Ok" =>
             /\ last'.op \in {"startWork", "submit", "resubmit"} =>
                  last'.caller = e.beneficiary
             /\ last'.op \in {"approve", "reject", "dispute"} =>
                  last'.caller = e.depositor
             /\ last'.op = "resolve" =>
                  last'.caller \in {e.depositor, e.beneficiary} \cup e.arbiters
         ]_vars
    /\ [](\A caller \in Callers, i \in Indices, b \in Allocations :
            /\ caller # e.beneficiary =>
                 /\ startWorkOutcome(caller) = "NotAuthorized"
                 /\ submitMilestoneOutcome(caller, i) = "NotAuthorized"
                 /\ resubmitMilestoneOutcome(caller, i) = "NotAuthorized"
            /\ caller # e.depositor =>
                 /\ approveMilestoneOutcome(caller, i, TRUE) = "NotAuthorized"
                 /\ rejectMilestoneOutcome(caller, i) = "NotAuthorized"
                 /\ disputeMilestoneOutcome(caller, i) = "NotAuthorized"
            /\ caller \notin {e.depositor, e.beneficiary} \cup e.arbiters =>
                 resolveDisputeOutcome(caller, i, b, TRUE, TRUE) = "NotAuthorized")
    /\ [][ last'.result = "NotAuthorized" => UNCHANGED ledger ]_vars

\* C12 witness: on a Disputed escrow, which each of its participants could
\* resolve, a resolve has been refused for want of authorization.
AuthorizationWitness ==
    /\ last.op = "resolve"
    /\ last.result = "NotAuthorized"
    /\ e.status = "Disputed"
    /\ Disputed # {}

\* C13: funds move only in a committed approve or resolve.  Every other
\* step (startWork, submit, reject, resubmit, dispute, a failed call, the
\* passage of time) transfers nothing and leaves paidAmount and the custody
\* total as they were; while time passes the whole ledger stays as it was,
\* so a Submitted milestone whose dispute window elapses stays Submitted.
FundsMoveOnlyOnApproveOrResolve ==
    [][ /\ ~(last'.op \in {"approve", "resolve"} /\ last'.result = "Ok") =>
             /\ received' = received
             /\ e'.paidAmount = e.paidAmount
             /\ escrowedAmount' = escrowedAmount
        /\ now' # now => UNCHANGED ledger
      ]_vars

\* C13 witness: the dispute window of a Submitted milestone has elapsed
\* after a dispute and a rejection, and nobody has been paid anything.
FundsMoveOnlyOnApproveOrResolveWitness ==
    /\ \E i \in DOMAIN milestones :
         /\ milestones[i].status = "Submitted"
         /\ milestones[i].amount > 0
         /\ now > milestones[i].submittedAt + DISPUTE_PERIOD
    /\ \E j \in DOMAIN milestones : milestones[j].status \in {"Rejected", "Disputed"}
    /\ \A a \in DOMAIN received : received[a] = 0
    /\ e.paidAmount = 0
    /\ escrowedAmount = e.totalAmount + OtherEscrowed

\* C14: paidAmount never decreases: no step, a resolve that refunds part or
\* all of a milestone to the depositor included, lowers it.
PaidNeverDecreases == [][ e'.paidAmount >= e.paidAmount ]_vars

\* C14 witness: after an earlier payout, a resolve has refunded a whole
\* milestone to the depositor.
PaidNeverDecreasesWitness ==
    /\ Committed("resolve")
    /\ last.amount = 0
    /\ milestones[last.index].amount > 0
    /\ received[e.depositor] = milestones[last.index].amount
    /\ e.paidAmount > 0

\* C15: no step changes the escrow's totalAmount, its number of milestones
\* or any milestone's amount, so the sum of the milestone amounts, equal to
\* totalAmount at creation, equals it in every reachable state.
AmountsFixed ==
    /\ [][ /\ e'.totalAmount = e.totalAmount
           /\ e'.milestoneCount = e.milestoneCount
           /\ DOMAIN milestones' = DOMAIN milestones
           /\ \A i \in DOMAIN milestones : milestones'[i].amount = milestones[i].amount
         ]_vars
    /\ [](/\ DOMAIN milestones = 0..(e.milestoneCount - 1)
          /\ SumAmounts([i \in DOMAIN milestones |-> milestones[i].amount],
                        e.milestoneCount) = e.totalAmount)

\* C15 witness: an escrow of two milestones of different amounts has been
\* settled by one approve and one resolve.
AmountsFixedWitness ==
    /\ e.milestoneCount = 2
    /\ milestones[0].amount # milestones[1].amount
    /\ milestones[0].amount > 0 /\ milestones[1].amount > 0
    /\ {milestones[0].status, milestones[1].status} = {"Approved", "Resolved"}
    /\ e.totalAmount = milestones[0].amount + milestones[1].amount

\* C16: startWork commits only for the beneficiary, on a Pending escrow
\* whose workStarted is false; it sets workStarted, makes the escrow
\* InProgress and adds the escrow's platformFee to the fee total.  Once work
\* has started a further startWork fails with InvalidState, and no other
\* step changes the fee total, so the fee is recorded exactly once.
StartWorkOnce ==
    /\ [][ (last'.op = "startWork" /\ last'.result = "Ok") =>
             /\ last'.caller = e.beneficiary
             /\ e.status = "Pending"
             /\ ~e.workStarted
             /\ e'.workStarted
             /\ e'.status = "InProgress"
             /\ totalFeesByToken' = totalFeesByToken + e.platformFee
         ]_vars
    /\ [][ totalFeesByToken' # totalFeesByToken =>
             (last'.op = "startWork" /\ last'.result = "Ok") ]_vars
    /\ [](e.workStarted => startWorkOutcome(e.beneficiary) = "InvalidState")
    /\ [](totalFeesByToken = IF e.workStarted THEN e.platformFee ELSE 0)
    /\ [](e.workStarted <=> e.status # "Pending")

\* C16 witness: on an escrow with a fee, a second startWork has been refused
\* and the fee total holds the fee once.
StartWorkOnceWitness ==
    /\ last.op = "startWork"
    /\ last.result = "InvalidState"
    /\ e.workStarted
    /\ e.platformFee > 0
    /\ totalFeesByToken = e.platformFee

\* C19: a resolve by a participant fails with InvalidState, paying nobody
\* and leaving the ledger as it was, unless the escrow is Disputed and the
\* addressed milestone is Disputed; with both Disputed it does not fail with
\* InvalidState.
ResolveNeedsDisputed ==
    /\ [](\A caller \in {e.depositor, e.beneficiary} \cup e.arbiters,
             i \in Indices, b \in Allocations, transfersOk \in BOOLEAN :
            LET outcome == resolveDisputeOutcome(caller, i, b, transfersOk, transfersOk)
                bothDisputed == /\ e.status = "Disputed"
                                /\ i \in DOMAIN milestones
                                /\ milestones[i].status = "Disputed"
            IN  /\ e.status # "Disputed" => outcome = "InvalidState"
                /\ (i \in DOMAIN milestones /\ milestones[i].status # "Disputed") =>
                     outcome = "InvalidState"
                /\ bothDisputed => outcome # "InvalidState")
    /\ [][ (last'.op = "resolve" /\ last'.result = "InvalidState") =>
             UNCHANGED ledger ]_vars
    /\ [][ (last'.op = "resolve" /\ last'.result = "Ok") =>
             /\ e.status = "Disputed"
             /\ milestones[last'.index].status = "Disputed" ]_vars

\* C19 witness: in a Disputed escrow that also holds a Submitted milestone,
\* a resolve has failed with InvalidState.
ResolveNeedsDisputedWitness ==
    /\ last.op = "resolve"
    /\ last.result = "InvalidState"
    /\ e.status = "Disputed"
    /\ \E i \in DOMAIN milestones : milestones[i].status = "Submitted"

\* C18: the reward claim made by approve is isolated from it.  However the
\* claim ends (not made, true, false, thrown), a committed approve pays the
\* beneficiary the milestone's amount and leaves the same milestone status,
\* escrow status, paidAmount and custody total; an approve fails only for
\* reasons that are not the claim's; and a claim that returns false or
\* throws shows in the RewardClaimFailed event of a committed approve and
\* nowhere else.
RewardClaimIsolated ==
    /\ [][ (last'.op = "approve" /\ last'.result = "Ok") =>
             LET i == last'.index
                 a == milestones[i].amount
             IN  /\ last'.claim \in RewardClaims
                 /\ last'.rewardClaimFailed = (last'.claim \in {"false", "revert"})
                 /\ milestones' = [milestones EXCEPT ![i].status = "Approved"]
                 /\ e' = [e EXCEPT !.paidAmount = e.paidAmount + a,
                                   !.status = IF e.paidAmount + a = e.totalAmount
                                              THEN "Released" ELSE "InProgress"]
                 /\ escrowedAmount' = escrowedAmount - a
                 /\ received' = [received EXCEPT ![e.beneficiary] = @ + a]
                 /\ totalFeesByToken' = totalFeesByToken
         ]_vars
    /\ [][ (last'.op = "approve" /\ last'.result # "Ok") =>
             last'.result \in {"NotAuthorized", "Reentrant", "InvalidState",
                               "NotFound", "Panic", "TransferFailed"} ]_vars
    /\ [](last.rewardClaimFailed => (last.op = "approve" /\ last.result = "Ok"))

\* C18 witness: an approve whose reward claim threw has released the escrow.
RewardClaimIsolatedWitness ==
    /\ Committed("approve")
    /\ last.claim = "revert"
    /\ last.rewardClaimFailed
    /\ milestones[last.index].amount > 0
    /\ e.status = "Released"

\* C17: while the transfer of an approve or a resolve has handed control to
\* its recipient, every call into the contract is rejected (Reentrant, or
\* NotAuthorized for a caller the function is not open to) and leaves the
\* ledger as it was; the suspended call then runs to its end, commits and
\* gives the guard back.  With the guard free no call is rejected as
\* Reentrant, and a call that fails does not keep the guard.
ReentrancyGuard ==
    /\ [][ (entered /\ entered') =>
             /\ UNCHANGED <<ledger, pending>>
             /\ \/ last'.op # "none" /\ last'.result \in {"Reentrant", "NotAuthorized"}
                \/ last' = NoCall
         ]_vars
    /\ [][ (entered /\ ~entered') =>
             /\ last'.op = pending.op
             /\ last'.op \in {"approve", "resolve"}
             /\ last'.result = "Ok"
             /\ last'.caller = pending.caller
             /\ last'.index = pending.index
             /\ last'.amount = pending.amount
             /\ milestones' = milestones
             /\ milestones[pending.index].status \in {"Approved", "Resolved"}
             /\ e'.paidAmount = e.paidAmount
             /\ e'.status = IF e.paidAmount = e.totalAmount THEN "Released"
                            ELSE "InProgress"
         ]_vars
    /\ [][ ~entered => last'.result # "Reentrant" ]_vars
    /\ [](entered <=> pending # NoPending)
    /\ [](entered => last.result \in {"Ok", "Reentrant", "NotAuthorized"})

\* C17 witness: during the payment of a resolve that also refunds, a nested
\* approve has been rejected as Reentrant.
ReentrancyGuardWitness ==
    /\ entered
    /\ pending.op = "resolve"
    /\ pending.transfer = "pay"
    /\ milestones[pending.index].amount > pending.amount
    /\ last.op = "approve"
    /\ last.result = "Reentrant"

\* C20: a resolve pays out only when a quorum of the escrow's arbiters has
\* voted for the resolution.  The contract keeps no votes: the only voice
\* heard for a resolution is the caller of the resolve that commits, so the
\* arbiters that have voted when the funds move are that caller if it is an
\* arbiter, and nobody otherwise.
ArbiterQuorum ==
    [][ (last'.op = "resolve" /\ last'.result = "Ok" /\ received' # received) =>
          Cardinality({last'.caller} \cap e.arbiters) >= e.requiredConfirmations
      ]_vars

\* C21: a committed resolve records as winner, in the milestone's
\* disputedBy, the party that got the larger part of the milestone's amount:
\* the beneficiary if beneficiaryAmount > refundAmount, the depositor if
\* refundAmount > beneficiaryAmount, and neither of them when the two are
\* equal.
ResolveRecordsWinner ==
    [][ (last'.op = "resolve" /\ last'.result = "Ok") =>
          LET i == last'.index
              beneficiaryAmount == last'.amount
              refundAmount == milestones[i].amount - beneficiaryAmount
          IN  /\ beneficiaryAmount > refundAmount =>
                   milestones'[i].disputedBy = e.beneficiary
              /\ refundAmount > beneficiaryAmount =>
                   milestones'[i].disputedBy = e.depositor
              /\ beneficiaryAmount = refundAmount =>
                   milestones'[i].disputedBy \notin {e.beneficiary, e.depositor}
      ]_vars

\* C22: a milestone operation called with an index that is not below the
\* escrow's milestoneCount fails with NotFound and leaves the ledger as it
\* was.  Stated for the calls that nothing else stands against: by the
\* party the function is open to, for submit, approve, reject and resubmit
\* on an InProgress escrow, for resolve on a Disputed one.
BadIndexNotFound ==
    /\ [](\A i \in Indices :
            ~(i < e.milestoneCount) =>
              /\ e.status = "InProgress" =>
                   /\ submitMilestoneOutcome(e.beneficiary, i) = "NotFound"
                   /\ approveMilestoneOutcome(e.depositor, i, TRUE) = "NotFound"
                   /\ rejectMilestoneOutcome(e.depositor, i) = "NotFound"
                   /\ resubmitMilestoneOutcome(e.beneficiary, i) = "NotFound"
              /\ disputeMilestoneOutcome(e.depositor, i) = "NotFound"
              /\ e.status = "Disputed" =>
                   \A b \in Allocations :
                     resolveDisputeOutcome(e.depositor, i, b, TRUE, TRUE) = "NotFound")
    /\ [][ last'.result = "NotFound" => UNCHANGED ledger ]_vars

\* C23: a milestone's status changes only along NotStarted -> Submitted by
\* submit, Submitted -> Approved by approve, Submitted -> Rejected by reject,
\* Rejected -> Submitted by resubmit, Submitted -> Disputed by dispute and
\* Disputed -> Resolved by resolve, so that Approved and Resolved are never
\* left.  A rejection is reversible: it moves no funds, a resubmit brings the
\* milestone back to Submitted, and an approve by the depositor then commits
\* and pays the milestone's full amount.
MilestoneStatusPath ==
    [][ /\ \A i \in DOMAIN milestones :
             milestones'[i].status # milestones[i].status =>
               /\ last'.result = "Ok"
               /\ last'.index = i
               /\ <<milestones[i].status, last'.op, milestones'[i].status>> \in
                    { <<"NotStarted", "submit", "Submitted">>,
                      <<"Submitted", "approve", "Approved">>,
                      <<"Submitted", "reject", "Rejected">>,
                      <<"Rejected", "resubmit", "Submitted">>,
                      <<"Submitted", "dispute", "Disputed">>,
                      <<"Disputed", "resolve", "Resolved">> }
        /\ (last'.op = "reject" /\ last'.result = "Ok") =>
               /\ e'.paidAmount = e.paidAmount
               /\ received' = received
               /\ escrowedAmount' = escrowedAmount
        /\ \A i \in DOMAIN milestones :
             (last'.op = "resubmit" /\ last'.result = "Ok" /\ last'.index = i) =>
               /\ milestones[i].status = "Rejected"
               /\ milestones'[i].status = "Submitted"
               /\ approveMilestoneOutcome(e.depositor, i, TRUE)' = "Ok"
        /\ (last'.op = "approve" /\ last'.result = "Ok") =>
               /\ received'[e.beneficiary] =
                    received[e.beneficiary] + milestones[last'.index].amount
               /\ e'.paidAmount = e.paidAmount + milestones[last'.index].amount
      ]_vars

\* C23 witness: a milestone of the full amount has been approved and paid
\* after it was rejected and resubmitted.
MilestoneStatusPathWitness ==
    /\ Committed("approve")
    /\ milestones[last.index].status = "Approved"
    /\ milestones[last.index].disputedBy = e.depositor
    /\ milestones[last.index].amount = MaxAmount
    /\ received[e.beneficiary] >= MaxAmount

\* C24: with totalAmount put into custody at funding, the token's custody
\* total is in every reachable state the sum, over the escrows in that
\* token, of the amounts of the milestones that are not yet Approved or
\* Resolved (OtherEscrowed being that sum for the other escrows), so no
\* decrement of custody ever underflows.
CustodyIsUnsettled ==
    LET unsettled == [i \in DOMAIN milestones |->
                        IF Settled(i) THEN 0 ELSE milestones[i].amount]
    IN  /\ escrowedAmount = OtherEscrowed + SumAmounts(unsettled, e.milestoneCount)
        /\ last.result # "Panic"

\* C24 witness: one milestone has been resolved with a split, the other is
\* still in custody.
CustodyIsUnsettledWitness ==
    /\ Committed("resolve")
    /\ last.amount = 1
    /\ e.milestoneCount = 2
    /\ milestones[last.index].amount = 2
    /\ \E i \in DOMAIN milestones : ~Settled(i) /\ milestones[i].amount = 2
    /\ escrowedAmount = OtherEscrowed + 2

\* C25: paidAmount is the sum of the amounts of the Approved milestones plus
\* the beneficiaryAmounts awarded at the Resolved ones, and that is the total
\* transferred to the beneficiary.  The awards are not stored, so the sum is
\* stated step by step: paidAmount starts at what the beneficiary has
\* received, a committed approve adds the milestone's amount as it makes it
\* Approved, a committed resolve adds its beneficiaryAmount as it makes the
\* milestone Resolved, and no other step changes paidAmount; hence paidAmount
\* lies between the Approved sum and the Approved plus Resolved sums.
PaidIsAwarded ==
    /\ [](/\ e.paidAmount = received[e.beneficiary]
          /\ SumAmounts(AmountsIn("Approved"), e.milestoneCount) <= e.paidAmount
          /\ e.paidAmount <= SumAmounts(AmountsIn("Approved"), e.milestoneCount)
                               + SumAmounts(AmountsIn("Resolved"), e.milestoneCount))
    /\ [][ e'.paidAmount - e.paidAmount =
             IF last'.op = "approve" /\ last'.result = "Ok"
                /\ milestones[last'.index].status # "Approved"
                /\ milestones'[last'.index].status = "Approved"
             THEN milestones[last'.index].amount
             ELSE IF last'.op = "resolve" /\ last'.result = "Ok"
                     /\ milestones[last'.index].status # "Resolved"
                     /\ milestones'[last'.index].status = "Resolved"
             THEN last'.amount
             ELSE 0 ]_vars

\* C25 witness: one milestone of 2 approved and one of 2 resolved with 1
\* awarded to the beneficiary, who has received 3.
PaidIsAwardedWitness ==
    /\ Committed("resolve")
    /\ last.amount = 1
    /\ milestones[last.index].amount = 2
    /\ \E i \in DOMAIN milestones :
         milestones[i].status = "Approved" /\ milestones[i].amount = 2
    /\ e.paidAmount = 3
    /\ received[e.beneficiary] = 3

\* C26: whenever a milestone is Disputed its escrow is Disputed, so that a
\* participant's resolve of it with a beneficiaryAmount of at most the
\* milestone's amount commits; no milestone is left Disputed in an escrow
\* that is InProgress or Released.
\* Stated for escrows whose milestones all have a positive amount.
DisputedMilestoneResolvable ==
    PositiveAmounts =>
      \A i \in Disputed :
         /\ e.status = "Disputed"
         /\ \A b \in 0..milestones[i].amount :
              resolveDisputeOutcome(e.depositor, i, b, TRUE, TRUE) = "Ok"

\* C27: in every reachable state in which every milestone of the escrow is
\* Approved or Resolved the escrow is Released, also when a resolve refunded
\* part of a milestone to the depositor (stated for escrows whose milestones
\* all have a positive amount).
AllSettledIsReleased ==
    (PositiveAmounts /\ \A i \in DOMAIN milestones : Settled(i)) =>
       e.status = "Released"

ResubmitRestartsWindow ==
    /\ [][ \A i \in DOMAIN milestones :
             (last'.op = "resubmit" /\ last'.result = "Ok" /\ last'.index = i) =>
               /\ last'.replaced = milestones[i].submittedAt
               /\ milestones'[i].submittedAt = now
               /\ now' = now
               /\ (disputeMilestoneOutcome(e.depositor, i) = "Ok")' ]_vars
    /\ [](\A i \in DOMAIN milestones :
            milestones[i].status = "Submitted" =>
              disputeMilestoneOutcome(e.depositor, i) =
                IF now <= milestones[i].submittedAt + DISPUTE_PERIOD
                THEN "Ok" ELSE "WindowExpired")

\* C29 witness: a milestone has been resubmitted after the window of the
\* submission it replaced had closed, and the depositor's dispute of it
\* commits.
ResubmitRestartsWindowWitness ==
    /\ Committed("resubmit")
    /\ last.replaced + DISPUTE_PERIOD < now
    /\ milestones[last.index].submittedAt = now
    /\ disputeMilestoneOutcome(e.depositor, last.index) = "Ok"

\* C30: funds in custody go back to the depositor only by a resolve that a
\* party other than the depositor, the beneficiary or an arbiter, has
\* called: nothing the depositor does alone after the beneficiary's submit
\* moves a milestone's funds back to the depositor.
RefundNeedsOtherParty ==
    [][ received'[e.depositor] # received[e.depositor] =>
          /\ last'.op = "resolve"
          /\ last'.result = "Ok"
          /\ last'.caller \in {e.beneficiary} \cup e.arbiters
      ]_vars

====
